---- MODULE Spec2Model ----
(***************************************************************************)
(* The API gateway of the IT equipment management system                   *)
(* (src/api-gateway/main.py): the forward_request middleware, the routing  *)
(* table SERVICE_URLS and the /health route.                               *)
(*                                                                         *)
(* Text.  A text (a path, a URL, a header value, a body) is a sequence of  *)
(* tokens; a token is a run of characters that no operation of the code    *)
(* looks inside ("/" is a token of its own, "equipment" is one token).     *)
(* Two tokens side by side are the concatenation of their characters:      *)
(* <<"equipment", "x">> is the segment "equipmentx".                       *)
(***************************************************************************)
EXTENDS Integers, Sequences, FiniteSets, TLC

\* ------------------------------------------------------------------ bounds

\* A request has at most this many path tokens after the leading "/", query
\* pairs and header fields, all together.
MaxReqSize == 3

\* A backend reply has at most this many header fields (content-type apart)
\* and body tokens, all together.
MaxRespSize == 3

\* How many client connections have requests in hand at the same time, where
\* the interleaving of requests is the matter.
MaxInFlight == 2

\* The sequence of a table gives out at most this many ids.
MaxRows == 2

\* ------------------------------------------------------------------- text

\* list[i:] of Python, i counted from 0.
DropFirst(t, n) == SubSeq(t, n + 1, Len(t))

StartsWith(t, p) == Len(p) <= Len(t) /\ SubSeq(t, 1, Len(p)) = p

RECURSIVE LStrip(_, _)
LStrip(t, tok) ==
    IF t # <<>> /\ Head(t) = tok THEN LStrip(Tail(t), tok) ELSE t

RECURSIVE RStrip(_, _)
RStrip(t, tok) ==
    IF t # <<>> /\ t[Len(t)] = tok THEN RStrip(SubSeq(t, 1, Len(t) - 1), tok) ELSE t

\* str.strip(chars) for a one-character chars.
Strip(t, tok) == RStrip(LStrip(t, tok), tok)

\* str.split(sep): the pieces between the occurrences of sep, scanned from
\* the left; a text without sep (the empty text too) is one piece.
RECURSIVE SplitFrom(_, _, _)
SplitFrom(t, sep, cur) ==
    IF t = <<>> THEN <<cur>>
    ELSE IF StartsWith(t, sep)
         THEN <<cur>> \o SplitFrom(DropFirst(t, Len(sep)), sep, <<>>)
         ELSE SplitFrom(Tail(t), sep, Append(cur, Head(t)))

Split(t, sep) == SplitFrom(t, sep, <<>>)

\* `sub in text` of Python: sub occurs in text as a run of tokens.
Contains(t, sub) ==
    \E i \in 1..(Len(t) - Len(sub) + 1) : SubSeq(t, i, i + Len(sub) - 1) = sub

\* str.lower(), token by token.
LowerTok(tok) ==
    CASE tok = "Application/JSON" -> "application/json"
      [] tok = "Equipment" -> "equipment"
      [] tok = "Content-Type" -> "content-type"
      [] tok = "Content-Length" -> "content-length"
      [] tok = "Content-Encoding" -> "content-encoding"
      [] tok = "Transfer-Encoding" -> "transfer-encoding"
      [] tok = "Connection" -> "connection"
      [] tok = "Set-Cookie" -> "set-cookie"
      [] OTHER -> tok

Lower(t) == [i \in 1..Len(t) |-> LowerTok(t[i])]

\* sep.join(parts)
RECURSIVE Join(_, _)
Join(parts, sep) ==
    IF parts = <<>> THEN <<>>
    ELSE IF Len(parts) = 1 THEN parts[1]
    ELSE parts[1] \o sep \o Join(Tail(parts), sep)

\* ------------------------------------------------------ ordered mappings
\* A Python dict is a sequence of <<key, value>> pairs with distinct keys, in
\* insertion order.  A multi-valued mapping (header list, query string) is a
\* sequence of <<key, value>> pairs in which a key may occur again.

HasKey(d, k) == \E i \in 1..Len(d) : d[i][1] = k

\* d[k] = v
SetItem(d, k, v) ==
    IF HasKey(d, k)
    THEN [i \in 1..Len(d) |-> IF d[i][1] = k THEN <<k, v>> ELSE d[i]]
    ELSE Append(d, <<k, v>>)

\* d.pop(k, None)
Pop(d, k) == SelectSeq(d, LAMBDA kv : kv[1] # k)

\* The values a multi-valued mapping holds for a key, in order.
ValuesOf(items, k) ==
    LET hits == SelectSeq(items, LAMBDA kv : kv[1] = k)
    IN  [i \in 1..Len(hits) |-> hits[i][2]]


\* ---------------------------------------------------------- routing table

SERVICE_URLS ==
    (<<"equipment">> :> <<"http:", "/", "/", "equipment-service:8001">>) @@
    (<<"providers">> :> <<"http:", "/", "/", "provider-service:8002">>) @@
    (<<"maintenance">> :> <<"http:", "/", "/", "maintenance-service:8003">>) @@
    (<<"reports">> :> <<"http:", "/", "/", "report-service:8004">>)

\* The module-level dict as the running process holds it.
VARIABLE service_urls

\* client.cookies, the cookie store of the shared client, as the set of
\* backends (by authority) it holds a cookie of.
VARIABLE cookies

\* --------------------------------------------------- what the client sends

Methods == {"GET", "POST"}

\* "health" is no routing key: as a first segment it names the local route.
\* "Equipment" differs from a key in letter case only.
PathTokens == {"/", "equipment", "providers", "health", "Equipment"}

QueryPairs == {<<"a", <<"1">>>>, <<"a", <<"2">>>>, <<"b", <<"1">>>>}

\* Header names reach the application in lower case (the server's doing).
RequestHeaderFields ==
    {<<"host", <<"gateway:8000">>>>, <<"x-tag", <<"1">>>>, <<"x-tag", <<"2">>>>}

RequestBodies == {<<>>, <<"payload">>}

\* request.url.path, request.query_params (as the pairs of the query string),
\* request.headers (as the list of fields) and request.body().
MakeRequest(m, p, q, h, b) ==
    [method |-> m, path |-> <<"/">> \o p, query |-> q, headers |-> h, body |-> b]

\* How many path tokens, query pairs and header fields a request of at most
\* `size` has.
RequestShapes(size) ==
    {s \in (0..size) \X (0..size) \X (0..size) : s[1] + s[2] + s[3] <= size}

\* ------------------------------------------------------ forward_request

\* A slip of ServiceName: the last part of the path instead of the first.
ServiceNameLast(path) ==
    LET path_parts == Split(Strip(path, "/"), <<"/">>) IN path_parts[Len(path_parts)]

\* A slip of ServiceName: the first part is put in lower case before the
\* lookup.
ServiceNameLowered(path) == Lower(Split(Strip(path, "/"), <<"/">>)[1])

\* path_parts = request.url.path.strip("/").split("/"); path_parts[0]
ServiceName(path) == Split(Strip(path, "/"), <<"/">>)[1]

\* service_name not in SERVICE_URLS, negated
IsRouted(name) == name \in DOMAIN service_urls

\* A slip of TargetUrl: the matched segment is cut from the path.
TargetUrlStripped(name, path) ==
    service_urls[name] \o DropFirst(LStrip(path, "/"), Len(name))

\* target_url = f"{SERVICE_URLS[service_name]}{request.url.path}"
TargetUrl(name, path) == service_urls[name] \o path

\* target_url.split("//")[1].split("/")[0]
HostOf(target_url) == Split(Split(target_url, <<"/", "/">>)[2], <<"/">>)[1]

\* dict(request.headers): Headers.keys() lists every field, Headers[k] is the
\* first value of k, so a repeated field keeps its first value.
RECURSIVE DictOfFirst(_, _)
DictOfFirst(items, acc) ==
    IF items = <<>> THEN acc
    ELSE DictOfFirst(Tail(items),
                     IF HasKey(acc, Head(items)[1]) THEN acc ELSE Append(acc, Head(items)))

RequestHeadersDict(raw) == DictOfFirst(raw, <<>>)

OutboundHeaders(raw, target_url) ==
    SetItem(RequestHeadersDict(raw), "host", HostOf(target_url))

\* params=request.query_params: the client builds its query from the items()
\* of the mapping it is given, which for this multi-valued mapping is one item
\* per key, holding the key's last value, in order of the key's first
\* occurrence.
RECURSIVE DictOfLast(_, _)
DictOfLast(items, acc) ==
    IF items = <<>> THEN acc
    ELSE DictOfLast(Tail(items), SetItem(acc, Head(items)[1], Head(items)[2]))

OutboundParams(query) == DictOfLast(query, <<>>)

\* The arguments of client.request(...); the client's own default headers,
\* added to those given, are left out.
BuildCall(name, req) ==
    LET target_url == TargetUrl(name, req.path)
    IN  [method |-> req.method,
         url |-> target_url,
         headers |-> OutboundHeaders(req.headers, target_url),
         params |-> OutboundParams(req.query),
         content |-> req.body,
         cookie |-> FALSE]

\* Whether the client adds a cookie field of its own to a call: it does when
\* it holds a cookie of the call's backend and the headers given have no
\* cookie field.
JarCookie(name, call) ==
    ~HasKey(call.headers, "cookie") /\ HostOf(TargetUrl(name, <<"/">>)) \in cookies


\* -------------------------------------------------- what a backend answers

Statuses == {200, 404, 503}

\* Declared content types; a reply may also declare none.
ContentTypes ==
    {<<"application/json">>,
     <<"Application/JSON", "; charset=utf-8">>,
     <<"application/problem+json">>,
     <<"application/json", "l">>,
     <<"application/pdf">>}

ReplyHeaderFields ==
    {<<"Content-Encoding", <<"gzip">>>>,
     <<"Transfer-Encoding", <<"chunked">>>>,
     <<"Connection", <<"close">>>>,
     <<"Set-Cookie", <<"a=1">>>>,
     <<"set-cookie", <<"b=2">>>>}

BodyTokens == {"[", "]", "1", " ", "NaN"}

\* How the bytes on the wire code the body: as it is, or gzip-compressed
\* (whatever the reply's headers declare).
Codings == {"identity", "gzip"}

NoReply ==
    [kind |-> "none", status |-> 0, headers |-> <<>>, coding |-> "identity",
     data |-> <<>>, error |-> <<>>]

\* The bytes of a body on the wire.
WireBytes(coding, data) ==
    IF coding = "gzip" THEN <<"gzip(">> \o data \o <<")">> ELSE data

\* How the backend frames the body: by a Content-Length of the bytes on the
\* wire, unless the reply is sent chunked.
Framing(h, c, d) ==
    IF \E i \in 1..Len(h) : h[i][1] = "Transfer-Encoding" THEN <<>>
    ELSE <<<<"Content-Length", <<ToString(Len(WireBytes(c, d)))>>>>>>

\* A reply: status line, header fields (the content type, when declared,
\* first, the framing last), and the body as coded on the wire.
MakeReply(st, ct, h, c, d) ==
    [kind |-> "response", status |-> st, headers |-> ct \o h \o Framing(h, c, d),
     coding |-> c, data |-> d, error |-> <<>>]

ContentTypeFields == {<<>>} \cup {<<<<"Content-Type", v>>>> : v \in ContentTypes}

\* How many header fields and body tokens a reply of at most `size` has.
ReplyShapes(size) == {s \in (0..size) \X (0..size) : s[1] + s[2] <= size}

\* str(e) of the transport errors: refused connection, failed name
\* resolution, and a timeout, whose text is empty.
TransportErrors ==
    {<<"All connection attempts failed">>,
     <<"[Errno -2] Name or service not known">>,
     <<>>}

\* The client's reading of a reply: one gzip decoding per declared
\* content-encoding.  Decoding bytes that are not gzip fails unless there are
\* no bytes at all.
RECURSIVE DecodeBody(_, _, _)
DecodeBody(n, coding, data) ==
    IF n = 0 THEN [ok |-> TRUE, content |-> WireBytes(coding, data)]
    ELSE IF coding = "gzip" THEN DecodeBody(n - 1, "identity", data)
    ELSE IF data = <<>> THEN DecodeBody(n - 1, "identity", data)
    ELSE [ok |-> FALSE, content |-> <<>>]

\* response.headers as the list of fields with lower-case names.
LowerNames(raw) == [i \in 1..Len(raw) |-> <<LowerTok(raw[i][1]), raw[i][2]>>]

DeclaredEncodings(raw) == Len(ValuesOf(LowerNames(raw), "content-encoding"))

\* response.content
ReplyContent(rep) == DecodeBody(DeclaredEncodings(rep.headers), rep.coding, rep.data)

\* dict(response.headers): lower-case names in order of first occurrence, the
\* values of a repeated name joined by ", ".
RECURSIVE DictOfJoined(_, _, _)
DictOfJoined(items, all, acc) ==
    IF items = <<>> THEN acc
    ELSE LET k == Head(items)[1]
         IN  DictOfJoined(Tail(items), all,
                 IF HasKey(acc, k) THEN acc
                 ELSE Append(acc, <<k, Join(ValuesOf(all, k), <<", ">>)>>))

ResponseHeadersDict(raw) == DictOfJoined(LowerNames(raw), LowerNames(raw), <<>>)

\* d.get(k, default)
Get(d, k, default) ==
    IF HasKey(d, k) THEN (CHOOSE kv \in {d[i] : i \in 1..Len(d)} : kv[1] = k)[2]
    ELSE default

\* response.headers.get("content-type", "").lower()
ContentTypeOf(rep) == Lower(Get(ResponseHeadersDict(rep.headers), "content-type", <<>>))

\* A slip of ForwardHeaders: connection is not popped.
ForwardHeadersKeepConnection(raw) ==
    Pop(Pop(ResponseHeadersDict(raw), "content-encoding"), "transfer-encoding")

\* forward_headers: dict(response.headers) less the three popped names.
ForwardHeaders(raw) ==
    Pop(Pop(Pop(ResponseHeadersDict(raw), "content-encoding"), "transfer-encoding"),
        "connection")

IsJsonBranch(content_type) ==
    \/ Contains(content_type, <<"application/json">>)
    \/ Contains(content_type, <<"application/problem+json">>)

\* ------------------------------------------------------------------- JSON
\* A JSON value: a number (its digits), NaN, or an array of values.

JNum(ds) == [k |-> "num", digits |-> ds, items |-> <<>>]
JNaN == [k |-> "nan", digits |-> <<>>, items |-> <<>>]
JArr(vs) == [k |-> "arr", digits |-> <<>>, items |-> vs]

NoValue == [k |-> "none", digits |-> <<>>, items |-> <<>>]
ParseFail == [ok |-> FALSE, val |-> NoValue, rest |-> <<>>]

SkipWs(t) == LStrip(t, " ")

RECURSIVE Digits(_)
Digits(t) == IF t # <<>> /\ Head(t) = "1" THEN <<"1">> \o Digits(Tail(t)) ELSE <<>>

RECURSIVE ParseValue(_)
ParseValue(t) ==
    IF t = <<>> THEN ParseFail
    ELSE IF Head(t) = "1"
         THEN [ok |-> TRUE, val |-> JNum(Digits(t)), rest |-> DropFirst(t, Len(Digits(t)))]
    ELSE IF Head(t) = "NaN"
         THEN [ok |-> TRUE, val |-> JNaN, rest |-> Tail(t)]
    ELSE IF Head(t) = "["
         THEN LET t1 == SkipWs(Tail(t))
              IN  IF t1 # <<>> /\ Head(t1) = "]"
                  THEN [ok |-> TRUE, val |-> JArr(<<>>), rest |-> Tail(t1)]
                  ELSE LET e == ParseValue(t1)
                           t2 == SkipWs(e.rest)
                       IN  IF e.ok /\ t2 # <<>> /\ Head(t2) = "]"
                           THEN [ok |-> TRUE, val |-> JArr(<<e.val>>), rest |-> Tail(t2)]
                           ELSE ParseFail
    ELSE ParseFail

\* response.json(): json.loads of the content; the whole text must be one
\* value, white space around it allowed.
JsonLoads(t) ==
    LET r == ParseValue(SkipWs(t))
    IN  IF r.ok /\ SkipWs(r.rest) = <<>> THEN [ok |-> TRUE, val |-> r.val]
        ELSE [ok |-> FALSE, val |-> NoValue]

RECURSIVE HasNaN(_)
HasNaN(v) ==
    \/ v.k = "nan"
    \/ v.k = "arr" /\ \E i \in 1..Len(v.items) : HasNaN(v.items[i])

RECURSIVE Compact(_)
Compact(v) ==
    IF v.k = "num" THEN v.digits
    ELSE IF v.k = "nan" THEN <<"NaN">>
    ELSE <<"[">> \o Join([i \in 1..Len(v.items) |-> Compact(v.items[i])], <<",">>) \o <<"]">>

\* A slip of JsonDumps: the items of an array are not rendered.
JsonDumpsShallow(v) ==
    IF HasNaN(v) THEN [ok |-> FALSE, body |-> <<>>]
    ELSE [ok |-> TRUE, body |-> IF v.k = "arr" THEN <<"[", "]">> ELSE Compact(v)]

\* JSONResponse.render: json.dumps(content, allow_nan=False,
\* separators=(",", ":")); a NaN anywhere in the value is refused.
JsonDumps(v) ==
    IF HasNaN(v) THEN [ok |-> FALSE, body |-> <<>>]
    ELSE [ok |-> TRUE, body |-> Compact(v)]


\* --------------------------------------------------------------- responses

NoResponse == [status |-> 0, headers |-> <<>>, body |-> <<>>]

\* The length of a body, in tokens, as the text of a header value.
LengthText(body) == <<ToString(Len(body))>>

\* Response(content, status_code, media_type, headers): the given headers,
\* then a content-length and a content-type where the headers have none (and
\* the response has a media type).
BuildResponse(body, status_code, media_type, headers) ==
    LET withLength ==
            IF HasKey(headers, "content-length") THEN headers
            ELSE Append(headers, <<"content-length", LengthText(body)>>)
        withType ==
            IF HasKey(withLength, "content-type") \/ media_type = <<>> THEN withLength
            ELSE Append(withLength, <<"content-type", media_type>>)
    IN  [status |-> status_code, headers |-> withType, body |-> body]

NoExc == [type |-> "", status_code |-> 0, detail |-> <<>>]

\* HTTPException(status_code=503,
\*               detail=f"Service {service_name} is unavailable: {str(e)}")
ServiceUnavailable(name, error) ==
    [type |-> "HTTPException", status_code |-> 503,
     detail |-> <<"Service ">> \o name \o <<" is unavailable: ">> \o error]

\* A slip of Uncaught: every exception of the relay is turned into the 503
\* of an unavailable service.
UncaughtAsUnavailable(type) ==
    [type |-> "HTTPException", status_code |-> 503, detail |-> <<type>>]

Uncaught(type) == [type |-> type, status_code |-> 0, detail |-> <<>>]

\* str(e) of the client's DecodingError.
DecodingErrorText == <<"Error -3 while decompressing data: incorrect header check">>

\* forward_request is registered as an http middleware: it runs outside the
\* application's exception handlers, so an exception that leaves it (an
\* HTTPException too) is answered by the server-error layer.
ServerErrorResponse(exc) ==
    BuildResponse(<<"Internal Server Error">>, 500,
                  <<"text/plain; charset=utf-8">>, <<>>)

Raise(exc) == [raised |-> exc, response |-> ServerErrorResponse(exc)]

Return(resp) == [raised |-> NoExc, response |-> resp]

\* A slip of RelayStatus: the status is left at the default.
RelayStatusDefault(rep) == 200

\* status_code=response.status_code
RelayStatus(rep) == rep.status

\* Lines 54-79 of forward_request, from the reply of client.request on.
Relay(name, rep) ==
    LET decoded == ReplyContent(rep)
        content_type == ContentTypeOf(rep)
        forward_headers == ForwardHeaders(rep.headers)
    IN  IF ~decoded.ok THEN Raise(ServiceUnavailable(name, DecodingErrorText))
        ELSE IF IsJsonBranch(content_type)
        THEN LET json == JsonLoads(decoded.content)
                 rendered == JsonDumps(json.val)
             IN  IF ~json.ok THEN Raise(Uncaught("JSONDecodeError"))
                 ELSE IF ~rendered.ok THEN Raise(Uncaught("ValueError"))
                 ELSE Return(BuildResponse(rendered.body, RelayStatus(rep),
                                           <<"application/json">>, forward_headers))
        ELSE Return(BuildResponse(decoded.content, RelayStatus(rep),
                                  IF content_type = <<>>
                                  THEN <<"application/octet-stream">>
                                  ELSE content_type,
                                  forward_headers))

\* ------------------------------------------------- the local handler chain

JsonBody(text) == BuildResponse(<<text>>, 200, <<"application/json">>, <<>>)

\* A slip of LocalApp: the health route is not registered.
LocalAppWithoutHealth(req) ==
    [JsonBody("{\"detail\":\"Not Found\"}") EXCEPT !.status = 404]

\* call_next(request): the application's own routes.  GET /health is the one
\* route; its path with another method is refused, its path with a trailing
\* slash is redirected to it, any other path is not found.
LocalApp(req) ==
    IF req.path = <<"/", "health">>
    THEN IF req.method = "GET"
         THEN JsonBody("{\"status\":\"healthy\"}")
         ELSE BuildResponse(<<"{\"detail\":\"Method Not Allowed\"}">>, 405,
                            <<"application/json">>, <<<<"allow", <<"GET">>>>>>)
    ELSE IF req.path = <<"/", "health", "/">>
    THEN BuildResponse(<<>>, 307, <<>>,
             <<<<"location",
                 <<"http:", "/", "/">>
                     \o Get(RequestHeadersDict(req.headers), "host", <<"0.0.0.0:8000">>)
                     \o <<"/", "health">>>>>>)
    ELSE [JsonBody("{\"detail\":\"Not Found\"}") EXCEPT !.status = 404]


\* ------------------------------------------------------------------ state
\* One entry per client connection: the requests of different connections
\* are handled concurrently, each by its own run of forward_request.

VARIABLES
    pc,            \* where the connection's request is: "idle" (none), "local"
                   \* (in call_next), "calling" (client.request has the call),
                   \* "waiting" (the call is with the backend), "answered"
    request,       \* the request, while forward_request still reads it
    service_name,  \* forward_request's local of that name
    outbound,      \* the call on its way to a backend
    sent,          \* how many outbound calls the request has caused
    handed,        \* the request as call_next received it
    reply,         \* what came back from the outbound call
    raised,        \* the exception that left forward_request
    response,      \* what the client received
    arrived,       \* the connections with a request in hand, oldest first
    answers        \* whose outbound call the reply (or failure) that resumed
                   \* the connection's handler belongs to

\* The backends' side: the database the services share, its id sequences,
\* and the calls the services are handling.
VARIABLES
    db,            \* the committed content of the tables
    origin,        \* the content of the tables before the first call
    seq,           \* the last id each table's sequence has given out
    handling       \* per caller: the operation in hand and how far it is

backend == <<db, origin, seq, handling>>

gateway ==
    <<service_urls, cookies, answers, pc, request, service_name, outbound, sent, handed, reply, raised,
      response, arrived>>

vars == <<gateway, backend>>

NoRequest == [method |-> "", path |-> <<>>, query |-> <<>>, headers |-> <<>>, body |-> <<>>]

NoCall ==
    [method |-> "", url |-> <<>>, headers |-> <<>>, params |-> <<>>, content |-> <<>>,
     cookie |-> FALSE]

Clients == DOMAIN pc

\* The tables the write operations of the services touch.
Tables == {"equipo", "proveedor", "contrato", "mantenimiento", "mantenimiento_repuesto"}

EmptyDb == [t \in Tables |-> {}]

\* A caller between two calls.
NoOperation ==
    [op |-> "", id |-> 0, body |-> <<>>, pc |-> "idle", tx |-> <<>>, row |-> <<>>,
     done |-> <<>>, error |-> "", status |-> 0, detail |-> ""]

LastId(rows) == IF rows = {} THEN 0 ELSE CHOOSE n \in {r.id : r \in rows} :
                                           \A r \in rows : r.id <= n

\* The services' callers are idle and the database holds content.
StoredFor(callers, content) ==
    /\ db = content
    /\ origin = content
    /\ seq = [t \in Tables |-> LastId(content[t])]
    /\ handling = [k \in callers |-> NoOperation]

\* The gateway with its connections idle.
GatewayFor(clients) ==
    /\ service_urls = SERVICE_URLS
    /\ cookies = {}
    /\ arrived = <<>>
    /\ answers = [c \in clients |-> {}]
    /\ pc = [c \in clients |-> "idle"]
    /\ request = [c \in clients |-> NoRequest]
    /\ service_name = [c \in clients |-> <<>>]
    /\ outbound = [c \in clients |-> NoCall]
    /\ sent = [c \in clients |-> 0]
    /\ handed = [c \in clients |-> NoRequest]
    /\ reply = [c \in clients |-> NoReply]
    /\ raised = [c \in clients |-> NoExc]
    /\ response = [c \in clients |-> NoResponse]

InitFor(clients) == GatewayFor(clients) /\ StoredFor({}, EmptyDb)

Init == InitFor({"c1"})

\* Lines 30-38, the request is not for a backend: return await call_next(request).
\* (split never returns an empty list, so the return of lines 32-33 is never
\* taken; the root path has the empty first segment and leaves at line 38.)
PassThroughRequest(c, req) ==
    /\ pc[c] = "idle"
    /\ ~IsRouted(ServiceName(req.path))
    /\ request' = [request EXCEPT ![c] = req]
    /\ service_name' = [service_name EXCEPT ![c] = ServiceName(req.path)]
    /\ handed' = [handed EXCEPT ![c] = req]
    /\ pc' = [pc EXCEPT ![c] = "local"]
    /\ arrived' = Append(arrived, c)
    /\ UNCHANGED <<service_urls, cookies, answers, outbound, sent, reply, raised, response>>
    /\ UNCHANGED backend

\* PassThroughRequest for any request of at most `size`.
PassThrough(c, size) ==
    /\ pc[c] = "idle"
    /\ \E s \in RequestShapes(size), m \in Methods, b \in RequestBodies :
       \E p \in [1..s[1] -> PathTokens], q \in [1..s[2] -> QueryPairs],
          h \in [1..s[3] -> RequestHeaderFields] :
        PassThroughRequest(c, MakeRequest(m, p, q, h, b))

\* The local handler chain answers and forward_request returns its response.
LocalResponds(c) ==
    /\ pc[c] = "local"
    /\ pc' = [pc EXCEPT ![c] = "answered"]
    /\ response' = [response EXCEPT ![c] = LocalApp(handed[c])]
    /\ request' = [request EXCEPT ![c] = NoRequest]
    /\ UNCHANGED <<service_urls, cookies, answers, service_name, outbound, sent, handed, reply, raised,
                   arrived>>
    /\ UNCHANGED backend

\* A slip of SendCall: a lock around the call, held until the reply.
SendCallUnderLock(c, req, name, call) ==
    /\ pc[c] = "idle"
    /\ \A d \in Clients : pc[d] \notin {"calling", "waiting"}
    /\ IsRouted(name)
    /\ request' = [request EXCEPT ![c] = req]
    /\ service_name' = [service_name EXCEPT ![c] = name]
    /\ outbound' = [outbound EXCEPT ![c] = [call EXCEPT !.cookie = JarCookie(name, call)]]
    /\ pc' = [pc EXCEPT ![c] = "calling"]
    /\ sent' = [sent EXCEPT ![c] = sent[c] + 1]
    /\ arrived' = Append(arrived, c)
    /\ UNCHANGED <<service_urls, cookies, answers, handed, reply, raised, response>>
    /\ UNCHANGED backend

\* Lines 37 and 46-52: the request resolved to `name`, its call goes out
\* and the handler is suspended at the await.
SendCall(c, req, name, call) ==
    /\ pc[c] = "idle"
    /\ IsRouted(name)
    /\ request' = [request EXCEPT ![c] = req]
    /\ service_name' = [service_name EXCEPT ![c] = name]
    /\ outbound' = [outbound EXCEPT ![c] = [call EXCEPT !.cookie = JarCookie(name, call)]]
    /\ pc' = [pc EXCEPT ![c] = "calling"]
    /\ sent' = [sent EXCEPT ![c] = sent[c] + 1]
    /\ arrived' = Append(arrived, c)
    /\ UNCHANGED <<service_urls, cookies, answers, handed, reply, raised, response>>
    /\ UNCHANGED backend

\* Lines 30-52, the request is for a backend: up to the await of
\* client.request(...).
ForwardRequest(c, req) ==
    /\ pc[c] = "idle"
    /\ IsRouted(ServiceName(req.path))
    /\ SendCall(c, req, ServiceName(req.path), BuildCall(ServiceName(req.path), req))

\* ForwardRequest for any request of at most `size`.
Forward(c, size) ==
    /\ pc[c] = "idle"
    /\ \E s \in RequestShapes(size), m \in Methods, b \in RequestBodies :
       \E p \in [1..s[1] -> PathTokens], q \in [1..s[2] -> QueryPairs],
          h \in [1..s[3] -> RequestHeaderFields] :
        ForwardRequest(c, MakeRequest(m, p, q, h, b))

\* A slip of CallDelivered: the request is dropped once its call is out, and
\* the connection goes back to idle without an answer.
CallDeliveredDropped(c) ==
    /\ pc[c] = "calling"
    /\ pc' = [pc EXCEPT ![c] = "idle"]
    /\ request' = [request EXCEPT ![c] = NoRequest]
    /\ outbound' = [outbound EXCEPT ![c] = NoCall]
    /\ service_name' = [service_name EXCEPT ![c] = <<>>]
    /\ sent' = [sent EXCEPT ![c] = 0]
    /\ arrived' = SelectSeq(arrived, LAMBDA a : a # c)
    /\ UNCHANGED <<service_urls, cookies, answers, handed, reply, raised, response>>
    /\ UNCHANGED backend

\* The call reaches the backend.  From here on forward_request reads its
\* locals service_name and response only (lines 54-79), never the request
\* or the arguments of the call again.
CallDelivered(c) ==
    /\ pc[c] = "calling"
    /\ pc' = [pc EXCEPT ![c] = "waiting"]
    /\ request' = [request EXCEPT ![c] = NoRequest]
    /\ outbound' = [outbound EXCEPT ![c] = NoCall]
    /\ UNCHANGED <<service_urls, cookies, answers, service_name, sent, handed, reply, raised, response,
                   arrived>>
    /\ UNCHANGED backend

\* The client stores the cookies of every response it receives (its
\* Set-Cookie fields), under the backend they came from.
StoredFrom(name, rep) ==
    IF \E i \in 1..Len(rep.headers) : LowerTok(rep.headers[i][1]) = "set-cookie"
    THEN {HostOf(TargetUrl(name, <<"/">>))}
    ELSE {}

\* A slip of Answer: replies are taken in the order of arrival of their
\* requests, so a reply waits while an earlier request is in flight.
AnswerInOrder(c, rep, out) ==
    /\ pc[c] = "waiting"
    /\ \A i, j \in 1..Len(arrived) :
            (i < j /\ arrived[j] = c) => pc[arrived[i]] \notin {"calling", "waiting"}
    /\ reply' = [reply EXCEPT ![c] = rep]
    /\ raised' = [raised EXCEPT ![c] = out.raised]
    /\ response' = [response EXCEPT ![c] = out.response]
    /\ pc' = [pc EXCEPT ![c] = "answered"]
    /\ cookies' = cookies \cup StoredFrom(service_name[c], rep)
    /\ answers' = [answers EXCEPT ![c] = {c}]
    /\ UNCHANGED <<service_urls, request, service_name, outbound, sent, handed, arrived>>
    /\ UNCHANGED backend

\* A slip of Answer: when the handler ends with an exception, the error
\* response goes out with the bytes already read from the backend.
AnswerWithBackendBody(c, rep, out) ==
    /\ pc[c] = "waiting"
    /\ reply' = [reply EXCEPT ![c] = rep]
    /\ raised' = [raised EXCEPT ![c] = out.raised]
    /\ response' = [response EXCEPT ![c] =
                        IF out.raised = NoExc THEN out.response
                        ELSE [out.response EXCEPT !.body = rep.data]]
    /\ pc' = [pc EXCEPT ![c] = "answered"]
    /\ cookies' = cookies \cup StoredFrom(service_name[c], rep)
    /\ answers' = [answers EXCEPT ![c] = {c}]
    /\ UNCHANGED <<service_urls, request, service_name, outbound, sent, handed, arrived>>
    /\ UNCHANGED backend

\* A slip of Answer: the replies come over one shared channel and each is
\* handed to the handler that has waited longest.
AnswerOldestWaiting(c, rep, out) ==
    /\ pc[c] = "waiting"
    /\ LET waiting == SelectSeq(arrived, LAMBDA a : pc[a] = "waiting")
           d == Head(waiting)
       IN  /\ reply' = [reply EXCEPT ![d] = rep]
           /\ raised' = [raised EXCEPT ![d] = out.raised]
           /\ response' = [response EXCEPT ![d] = out.response]
           /\ pc' = [pc EXCEPT ![d] = "answered"]
           /\ answers' = [answers EXCEPT ![d] = {c}]
    /\ cookies' = cookies \cup StoredFrom(service_name[c], rep)
    /\ UNCHANGED <<service_urls, request, service_name, outbound, sent, handed, arrived>>
    /\ UNCHANGED backend

\* The handler is resumed with the reply and ends with `out`: the response
\* it returns (lines 62-73) or the exception it raises.
Answer(c, rep, out) ==
    /\ pc[c] = "waiting"
    /\ reply' = [reply EXCEPT ![c] = rep]
    /\ raised' = [raised EXCEPT ![c] = out.raised]
    /\ response' = [response EXCEPT ![c] = out.response]
    /\ pc' = [pc EXCEPT ![c] = "answered"]
    /\ cookies' = cookies \cup StoredFrom(service_name[c], rep)
    /\ answers' = [answers EXCEPT ![c] = {c}]
    /\ UNCHANGED <<service_urls, request, service_name, outbound, sent, handed, arrived>>
    /\ UNCHANGED backend

\* The backend's reply arrives: lines 54-73, and 75-79 when the reply cannot
\* be read.  No line of them awaits, so the response is complete in the
\* same step.
ReplyArrives(c, rep) ==
    /\ pc[c] = "waiting"
    /\ Answer(c, rep, Relay(service_name[c], rep))

\* ReplyArrives for any reply of at most `size`.
BackendReplies(c, size) ==
    /\ pc[c] = "waiting"
    /\ \E s \in ReplyShapes(size), st \in Statuses, ct \in ContentTypeFields,
          coding \in Codings :
       \E h \in [1..s[1] -> ReplyHeaderFields], d \in [1..s[2] -> BodyTokens] :
        ReplyArrives(c, MakeReply(st, ct, h, coding, d))

\* A slip of TransportFails: the backend that failed is taken out of the
\* mapping.
TransportFailsEvicts(c) ==
    /\ pc[c] \in {"calling", "waiting"}
    /\ \E error \in TransportErrors :
        /\ reply' = [reply EXCEPT ![c] = [NoReply EXCEPT !.kind = "failure", !.error = error]]
        /\ raised' = [raised EXCEPT ![c] = ServiceUnavailable(service_name[c], error)]
        /\ response' = [response EXCEPT ![c] =
                            ServerErrorResponse(ServiceUnavailable(service_name[c], error))]
    /\ pc' = [pc EXCEPT ![c] = "answered"]
    /\ request' = [request EXCEPT ![c] = NoRequest]
    /\ outbound' = [outbound EXCEPT ![c] = NoCall]
    /\ answers' = [answers EXCEPT ![c] = {c}]
    /\ service_urls' = [k \in DOMAIN service_urls \ {service_name[c]} |-> service_urls[k]]
    /\ UNCHANGED <<cookies, service_name, sent, handed, arrived>>
    /\ UNCHANGED backend

\* A slip of TransportFails: the first failure is met with a second call.
TransportFailsRetry(c) ==
    /\ pc[c] \in {"calling", "waiting"}
    /\ \E error \in TransportErrors :
        /\ reply' = [reply EXCEPT ![c] = [NoReply EXCEPT !.kind = "failure", !.error = error]]
        /\ IF sent[c] = 1
           THEN /\ pc' = [pc EXCEPT ![c] = "waiting"]
                /\ sent' = [sent EXCEPT ![c] = 2]
                /\ UNCHANGED <<raised, response>>
           ELSE /\ pc' = [pc EXCEPT ![c] = "answered"]
                /\ raised' = [raised EXCEPT ![c] = ServiceUnavailable(service_name[c], error)]
                /\ response' = [response EXCEPT ![c] =
                                    ServerErrorResponse(ServiceUnavailable(service_name[c], error))]
                /\ UNCHANGED sent
    /\ request' = [request EXCEPT ![c] = NoRequest]
    /\ outbound' = [outbound EXCEPT ![c] = NoCall]
    /\ answers' = [answers EXCEPT ![c] = {c}]
    /\ UNCHANGED <<service_urls, cookies, service_name, handed, arrived>>
    /\ UNCHANGED backend

\* client.request raises a transport error, before the call reaches the
\* backend (refused connection, failed name resolution) or after (timeout):
\* lines 75-79.
TransportFails(c) ==
    /\ pc[c] \in {"calling", "waiting"}
    /\ \E error \in TransportErrors :
        /\ reply' = [reply EXCEPT ![c] = [NoReply EXCEPT !.kind = "failure", !.error = error]]
        /\ raised' = [raised EXCEPT ![c] = ServiceUnavailable(service_name[c], error)]
        /\ response' = [response EXCEPT ![c] =
                            ServerErrorResponse(ServiceUnavailable(service_name[c], error))]
    /\ pc' = [pc EXCEPT ![c] = "answered"]
    /\ request' = [request EXCEPT ![c] = NoRequest]
    /\ outbound' = [outbound EXCEPT ![c] = NoCall]
    /\ answers' = [answers EXCEPT ![c] = {c}]
    /\ UNCHANGED <<service_urls, cookies, service_name, sent, handed, arrived>>
    /\ UNCHANGED backend

\* The connection is ready for its next request; nothing of the last one is
\* kept.
NextRequest(c) ==
    /\ pc[c] = "answered"
    /\ pc' = [pc EXCEPT ![c] = "idle"]
    /\ service_name' = [service_name EXCEPT ![c] = <<>>]
    /\ sent' = [sent EXCEPT ![c] = 0]
    /\ handed' = [handed EXCEPT ![c] = NoRequest]
    /\ reply' = [reply EXCEPT ![c] = NoReply]
    /\ raised' = [raised EXCEPT ![c] = NoExc]
    /\ response' = [response EXCEPT ![c] = NoResponse]
    /\ arrived' = SelectSeq(arrived, LAMBDA a : a # c)
    /\ answers' = [answers EXCEPT ![c] = {}]
    /\ UNCHANGED <<service_urls, cookies, request, outbound>>
    /\ UNCHANGED backend

Next ==
    \E c \in Clients :
        \/ PassThrough(c, MaxReqSize)
        \/ LocalResponds(c)
        \/ Forward(c, MaxReqSize)
        \/ CallDelivered(c)
        \/ BackendReplies(c, MaxRespSize)
        \/ TransportFails(c)
        \/ NextRequest(c)

Spec == Init /\ [][Next]_vars

\* ---------------------------------------------------- concurrent requests
\* Several connections at once, each sending requests of a few kinds and
\* each call answered in a few ways.

ConnectionIds == 1..MaxInFlight

ConcurrentRequests ==
    {MakeRequest("GET", <<"equipment">>, <<>>, <<>>, <<>>),
     MakeRequest("POST", <<"providers", "/">>, <<>>, <<>>, <<"payload">>),
     MakeRequest("GET", <<"health">>, <<>>, <<>>, <<>>),
     MakeRequest("GET", <<"Equipment">>, <<>>, <<>>, <<>>)}

ConcurrentReplies ==
    {MakeReply(200, <<<<"Content-Type", <<"application/json">>>>>>, <<>>, "identity",
               <<"[", "1", "]">>),
     MakeReply(404, <<<<"Content-Type", <<"application/pdf">>>>>>, <<>>, "identity",
               <<"1", " ">>),
     MakeReply(200, <<<<"Content-Type", <<"application/json">>>>>>, <<>>, "identity",
               <<"[">>)}

ConcurrentInit == InitFor(ConnectionIds)

ConcurrentNext ==
    \E c \in Clients :
        \/ \E req \in ConcurrentRequests : PassThroughRequest(c, req)
        \/ LocalResponds(c)
        \/ \E req \in ConcurrentRequests : ForwardRequest(c, req)
        \/ CallDelivered(c)
        \/ \E rep \in ConcurrentReplies : ReplyArrives(c, rep)
        \/ TransportFails(c)
        \/ NextRequest(c)

ConcurrentSpec == ConcurrentInit /\ [][ConcurrentNext]_vars

\* What the scheduling gives every request: the event loop runs a handler
\* that is ready (LocalResponds), and the client's call does not stay out for
\* ever: httpx.AsyncClient() has the default timeouts, so a call that no reply
\* ends is ended by a transport failure.
Fairness ==
    \A c \in ConnectionIds :
        /\ WF_vars(LocalResponds(c))
        /\ WF_vars(TransportFails(c))

FairSpec == ConcurrentSpec /\ Fairness

\* ------------------------------------------- the routes of the backends

\* A route of a backend: the service's listening port (uvicorn.run), the
\* method and the path of the decorator, path parameters set to 1.
Route(port, method, path) == [port |-> port, method |-> method, path |-> path]

EquipmentRoutes ==
    {Route(8001, "POST", <<"equipment", "/">>),
     Route(8001, "GET", <<"equipment", "/">>),
     Route(8001, "GET", <<"equipment", "/", "locations", "/">>),
     Route(8001, "GET", <<"equipment", "/", "1">>),
     Route(8001, "PUT", <<"equipment", "/", "1">>),
     Route(8001, "DELETE", <<"equipment", "/", "1">>),
     Route(8001, "GET", <<"equipment", "/", "1", "/", "purchases", "/">>),
     Route(8001, "GET", <<"equipment", "/", "1", "/", "movements", "/">>)}

ProviderRoutes ==
    {Route(8002, "POST", <<"providers", "/">>),
     Route(8002, "GET", <<"providers", "/">>),
     Route(8002, "POST", <<"contracts", "/">>),
     Route(8002, "GET", <<"providers", "/", "1", "/", "contracts">>),
     Route(8002, "GET", <<"providers", "/", "1", "/", "purchases">>),
     Route(8002, "GET", <<"providers", "/", "1", "/", "purchases", "/", "1", "/", "details">>),
     Route(8002, "PUT", <<"providers", "/", "1">>)}

MaintenanceRoutes ==
    {Route(8003, "GET", <<"maintenance", "/">>),
     Route(8003, "POST", <<"maintenance", "/">>),
     Route(8003, "GET", <<"maintenance", "/", "equipment", "/", "1">>),
     Route(8003, "POST", <<"maintenance", "/", "1", "/", "spare-parts", "/">>),
     Route(8003, "GET", <<"maintenance", "/", "1", "/", "spare-parts", "/">>)}

ReportRoutes ==
    {Route(8004, "GET", <<"reports", "/", "equipment-status">>),
     Route(8004, "GET", <<"reports", "/", "maintenance-costs">>),
     Route(8004, "GET", <<"reports", "/", "equipment-by-location">>),
     Route(8004, "GET", <<"reports", "/", "maintenance-by-type">>),
     Route(8004, "GET", <<"reports", "/", "equipment-aging">>),
     Route(8004, "GET", <<"reports", "/", "export", "/", "excel">>),
     Route(8004, "GET", <<"reports", "/", "export", "/", "pdf">>)}

BackendRoutes == EquipmentRoutes \cup ProviderRoutes \cup MaintenanceRoutes \cup ReportRoutes

\* A request for a route, as a client of the gateway sends it.
RouteRequest(r) == MakeRequest(r.method, r.path, <<>>, <<>>, <<>>)

\* The port of an authority.
PortOf(authority) ==
    CASE authority = <<"equipment-service:8001">> -> 8001
      [] authority = <<"provider-service:8002">> -> 8002
      [] authority = <<"maintenance-service:8003">> -> 8003
      [] authority = <<"report-service:8004">> -> 8004
      [] OTHER -> 0

\* The gateway under requests for the routes of the backends.
RouteNext ==
    \E c \in Clients :
        \/ \E r \in BackendRoutes : PassThroughRequest(c, RouteRequest(r))
        \/ LocalResponds(c)
        \/ \E r \in BackendRoutes : ForwardRequest(c, RouteRequest(r))
        \/ CallDelivered(c)
        \/ \E rep \in ConcurrentReplies : ReplyArrives(c, rep)
        \/ TransportFails(c)
        \/ NextRequest(c)

\* Two callers are enough to have a route's request beside another's.
RouteInit == InitFor({"c1", "c2"})

RouteSpec == RouteInit /\ [][RouteNext]_vars


\* ------------------------------------------------------------- properties

RoutingKeys == DOMAIN SERVICE_URLS

\* The first segment of a path: what lies between its leading slashes and
\* the next slash.
FirstSegment(path) == Split(Strip(path, "/"), <<"/">>)[1]

\* The media type a content-type value declares: the value up to its
\* parameters, in lower case.
RECURSIVE MediaType(_)
MediaType(value) ==
    IF value = <<>> \/ Head(value) = "; charset=utf-8" THEN <<>>
    ELSE <<LowerTok(Head(value))>> \o MediaType(Tail(value))

DeclaredType(rep) ==
    LET values == ValuesOf(LowerNames(rep.headers), "content-type")
    IN  IF values = <<>> THEN <<>> ELSE MediaType(values[1])

DeclaresJson(rep) ==
    DeclaredType(rep) \in {<<"application/json">>, <<"application/problem+json">>}

\* The backend's body as JSON: the body, read by its declared content
\* encoding, is a JSON text (NaN is none).
BackendJson(rep) ==
    LET decoded == ReplyContent(rep)
        json == JsonLoads(decoded.content)
    IN  IF decoded.ok /\ json.ok /\ ~HasNaN(json.val) THEN json
        ELSE [ok |-> FALSE, val |-> NoValue]

Relayed(c) == pc[c] = "answered" /\ reply[c].kind = "response" /\ raised[c] = NoExc

HopHeaders == {"content-encoding", "transfer-encoding", "connection"}

HeaderNames(fields) == {fields[i][1] : i \in 1..Len(fields)}

\* C1: a request whose first path segment is a routing key causes exactly one
\* outbound call, to the backend of that key, with the request's method, its
\* query parameters and its body.
C1_OneCallSameMethodQueryBody ==
    \A c \in Clients :
        pc[c] = "calling" =>
            /\ FirstSegment(request[c].path) \in RoutingKeys
            /\ sent[c] = 1
            /\ StartsWith(outbound[c].url, SERVICE_URLS[FirstSegment(request[c].path)])
            /\ outbound[c].method = request[c].method
            /\ outbound[c].params = request[c].query
            /\ outbound[c].content = request[c].body

\* C2: a request whose first path segment is no routing key (the root path
\* too) causes no outbound call; the local handler chain receives it as it
\* came and the client receives that chain's response.
C2_UnroutedHandledLocally ==
    \A c \in Clients :
        /\ (request[c] # NoRequest /\ FirstSegment(request[c].path) \notin RoutingKeys) =>
                /\ pc[c] = "local"
                /\ handed[c] = request[c]
        /\ handed[c] # NoRequest =>
                /\ FirstSegment(handed[c].path) \notin RoutingKeys
                /\ sent[c] = 0 /\ outbound[c] = NoCall /\ reply[c] = NoReply
                /\ raised[c] = NoExc
                /\ pc[c] = "answered" => response[c] = LocalApp(handed[c])

C2_Witness ==
    \E c \in Clients :
        /\ pc[c] = "answered"
        /\ handed[c].path = <<"/", "health", "/", "equipment">>
        /\ response[c].status = 404

\* C3: when the outbound call fails in transport, the client receives status
\* 503 with a detail that holds the service name and the error text.
C3_TransportFailureAnswered503 ==
    \A c \in Clients :
        (pc[c] = "answered" /\ reply[c].kind = "failure") =>
            /\ response[c].status = 503
            /\ Contains(response[c].body, service_name[c])
            /\ Contains(response[c].body, reply[c].error)

\* C4 as claimed: every reply that declares a JSON content type, its body a
\* JSON text or empty, is relayed with the backend's status and a body that
\* parses as JSON (to the backend's value, where the backend's body has one).
C4_EveryJsonReplyRelayed ==
    \A c \in Clients :
        (pc[c] = "answered" /\ reply[c].kind = "response" /\ DeclaresJson(reply[c])
            /\ (BackendJson(reply[c]).ok \/ WireBytes(reply[c].coding, reply[c].data) = <<>>)) =>
            /\ raised[c] = NoExc
            /\ response[c].status = reply[c].status
            /\ JsonLoads(response[c].body).ok
            /\ BackendJson(reply[c]).ok => JsonLoads(response[c].body) = BackendJson(reply[c])

\* C4 as amended: every reply that declares a JSON content type and whose
\* body is a JSON text is relayed with the backend's status and a body that
\* parses to the same JSON value as the backend's.
C4_JsonTextRelayedEqual ==
    \A c \in Clients :
        (pc[c] = "answered" /\ reply[c].kind = "response" /\ DeclaresJson(reply[c])
            /\ BackendJson(reply[c]).ok) =>
            /\ raised[c] = NoExc
            /\ response[c].status = reply[c].status
            /\ JsonLoads(response[c].body) = BackendJson(reply[c])

C4_Witness ==
    \E c \in Clients :
        /\ Relayed(c) /\ DeclaresJson(reply[c]) /\ BackendJson(reply[c]).ok
        /\ reply[c].status = 404
        /\ reply[c].data = <<"[", " ", "]">>
        /\ response[c].body = <<"[", "]">>

\* C5: a reply whose content type is not application/json nor
\* application/problem+json (none declared, or a type that only contains one
\* of those strings) is answered with the backend's body byte for byte (the
\* body as the client read it from a readable reply).
C5_OtherTypesRelayedAsBytes ==
    \A c \in Clients :
        (pc[c] = "answered" /\ reply[c].kind = "response" /\ ~DeclaresJson(reply[c])
            /\ ReplyContent(reply[c]).ok) =>
            /\ raised[c] = NoExc
            /\ response[c].body = ReplyContent(reply[c]).content

\* C6: a relayed response has no content-encoding, transfer-encoding or
\* connection header, whatever the backend's reply carried.
C6_NoHopHeadersRelayed ==
    \A c \in Clients :
        Relayed(c) =>
            \A i \in 1..Len(response[c].headers) :
                LowerTok(response[c].headers[i][1]) \notin HopHeaders

C6_Witness ==
    \E c \in Clients :
        /\ Relayed(c)
        /\ HeaderNames(LowerNames(reply[c].headers)) = HopHeaders

\* C7: a relayed response has the backend's status code.
C7_StatusRelayed ==
    \A c \in Clients : Relayed(c) => response[c].status = reply[c].status

C7_Witness ==
    \E c \in Clients : Relayed(c) /\ reply[c].status = 503 /\ response[c].status = 503

\* C8: the query parameters of the outbound call are the request's (key,
\* value) pairs, in order, a repeated key as often as it came.
C8_QueryPairsKept ==
    \A c \in Clients : pc[c] = "calling" => outbound[c].params = request[c].query

\* C9: the outbound call carries every header of the request with its
\* value(s), a repeated header too, except host, which is the host:port of
\* the backend.
C9_HeadersKeptHostReplaced ==
    \A c \in Clients :
        pc[c] = "calling" =>
            /\ \A name \in HeaderNames(request[c].headers) \ {"host"} :
                    ValuesOf(outbound[c].headers, name) = ValuesOf(request[c].headers, name)
            /\ ValuesOf(outbound[c].headers, "host")
                    = <<DropFirst(SERVICE_URLS[FirstSegment(request[c].path)], 3)>>

\* C10: the target URL is the backend base address of the matched key
\* followed by the request path as it came, the matched segment included.
C10_PathKeptVerbatim ==
    \A c \in Clients :
        pc[c] = "calling" =>
            LET base == SERVICE_URLS[FirstSegment(request[c].path)]
            IN  /\ StartsWith(outbound[c].url, base)
                /\ DropFirst(outbound[c].url, Len(base)) = request[c].path

C10_Witness ==
    \E c \in Clients :
        /\ pc[c] = "calling"
        /\ request[c].path = <<"/", "/", "providers", "/">>
        /\ outbound[c].url = <<"http:", "/", "/", "provider-service:8002", "/", "/", "providers", "/">>


\* C11: a request is forwarded exactly when its first path segment equals a
\* routing key: a segment that only starts with a key, differs from it in
\* letter case, or a key in a later segment, is never forwarded.
C11_ForwardedIffFirstSegmentIsKey ==
    \A c \in Clients :
        request[c] # NoRequest =>
            /\ pc[c] \in {"calling", "local"}
            /\ pc[c] = "calling" <=> FirstSegment(request[c].path) \in RoutingKeys
            /\ pc[c] = "calling" <=> outbound[c] # NoCall
            /\ pc[c] = "local" <=> sent[c] = 0

C11_Witness ==
    \E c \in Clients :
        /\ pc[c] = "local" /\ sent[c] = 0
        /\ request[c].path = <<"/", "Equipment", "/", "equipment">>


HealthPath == <<"/", "health">>

Healthy ==
    [status |-> 200,
     headers |-> <<<<"content-length", <<"1">>>>, <<"content-type", <<"application/json">>>>>>,
     body |-> <<"{\"status\":\"healthy\"}">>]

\* C12: GET /health is answered with the fixed payload and causes no outbound
\* call, whatever the backends do and whatever other requests are in flight.
C12_HealthAlwaysLocal ==
    \A c \in Clients :
        /\ (request[c].method = "GET" /\ request[c].path = HealthPath) =>
                pc[c] = "local" /\ ENABLED LocalResponds(c)
        /\ (handed[c].method = "GET" /\ handed[c].path = HealthPath) =>
                /\ sent[c] = 0 /\ outbound[c] = NoCall /\ raised[c] = NoExc
                /\ pc[c] = "answered" => response[c] = Healthy

\* The payload is received after an earlier request of another connection
\* has met an unreachable backend.
C12_Witness ==
    \E c, d \in Clients :
        /\ pc[c] = "answered" /\ handed[c].path = HealthPath /\ response[c] = Healthy
        /\ pc[d] = "answered" /\ reply[d].kind = "failure"
        /\ arrived = <<d, c>>


\* C13: a reply that declares a JSON content type and has a body that does
\* not parse as JSON ends in an error for the caller: no success response, no
\* relay of the body, and not the 503 of an unavailable service.
C13_UnparseableJsonIsAnError ==
    \A c \in Clients :
        (pc[c] = "answered" /\ reply[c].kind = "response" /\ DeclaresJson(reply[c])
            /\ ReplyContent(reply[c]).ok
            /\ ~JsonLoads(ReplyContent(reply[c]).content).ok) =>
            /\ raised[c].type = "JSONDecodeError" /\ raised[c].status_code # 503
            /\ response[c].status >= 400 /\ response[c].status # 503
            /\ response[c].body # ReplyContent(reply[c]).content
            /\ response[c].body # WireBytes(reply[c].coding, reply[c].data)

C13_Witness ==
    \E c \in Clients :
        /\ pc[c] = "answered" /\ DeclaresJson(reply[c])
        /\ reply[c].status = 200 /\ reply[c].data = <<"[", "1">>
        /\ raised[c].type = "JSONDecodeError" /\ response[c].status = 500

\* The call of `req` can go out on connection c.
CanForward(c, req) ==
    \A name \in {ServiceName(req.path)} :
        \A call \in {BuildCall(name, req)} : ENABLED SendCall(c, req, name, call)

\* The handler of connection c can end with its answer to `rep`.
CanAnswer(c, rep) ==
    \A out \in {Relay(service_name[c], rep)} : ENABLED Answer(c, rep, out)

\* C14: while a request waits for its backend, any other request, to the
\* same backend or another, can be forwarded, delivered and completed.
C14_WaitingBlocksNobody ==
    \A c, d \in Clients :
        (c # d /\ pc[c] \in {"calling", "waiting"}) =>
            /\ pc[d] = "idle" =>
                    \A req \in ConcurrentRequests :
                        FirstSegment(req.path) \in RoutingKeys => CanForward(d, req)
            /\ pc[d] = "calling" => ENABLED CallDelivered(d)
            /\ pc[d] = "waiting" => \A rep \in ConcurrentReplies : CanAnswer(d, rep)

\* A later request to the same backend is completed while the earlier one
\* still waits.
C14_Witness ==
    \E c, d \in Clients :
        /\ arrived = <<c, d>>
        /\ pc[c] = "waiting" /\ pc[d] = "answered"
        /\ service_name[c] = service_name[d]
        /\ reply[d].kind = "response" /\ raised[d] = NoExc


\* C15: every header of the backend's reply other than content-encoding,
\* transfer-encoding and connection is in the relayed response with the
\* backend's values, one relayed value for each value the backend sent.
C15_OtherHeadersRelayedIntact ==
    \A c \in Clients :
        Relayed(c) =>
            \A name \in HeaderNames(LowerNames(reply[c].headers)) \ HopHeaders :
                ValuesOf(LowerNames(response[c].headers), name) =
                    ValuesOf(LowerNames(reply[c].headers), name)

\* C16: the reply goes through the JSON decoder exactly when its declared
\* media type is application/json or application/problem+json.
C16_JsonBranchIffJsonMediaType ==
    \A c \in Clients :
        (pc[c] = "answered" /\ reply[c].kind = "response" /\ ReplyContent(reply[c]).ok) =>
            (IsJsonBranch(ContentTypeOf(reply[c])) <=> DeclaresJson(reply[c]))

\* C17: a request whose call failed in transport made exactly one call, and
\* no call of it is out or can go out.
C17_FailedCallNotRetried ==
    \A c \in Clients :
        reply[c].kind = "failure" =>
            /\ sent[c] = 1
            /\ pc[c] = "answered" /\ outbound[c] = NoCall
            /\ ~ENABLED CallDelivered(c)
            /\ \A req \in ConcurrentRequests :
                    FirstSegment(req.path) \in RoutingKeys => ~CanForward(c, req)

C17_Witness ==
    \E c \in Clients :
        /\ pc[c] = "answered" /\ reply[c].kind = "failure"
        /\ reply[c].error = <<"All connection attempts failed">>
        /\ sent[c] = 1 /\ raised[c].status_code = 503


\* The steps of one request, in the order of forward_request: received and
\* resolved, then forwarded, then the reply classified and relayed or the
\* failure raised; an unrouted one is handed on and answered.
InOrder(c) ==
    /\ pc'[c] # pc[c] =>
            <<pc[c], pc'[c]>> \in {<<"idle", "calling">>, <<"calling", "waiting">>,
                                   <<"waiting", "answered">>, <<"calling", "answered">>,
                                   <<"idle", "local">>, <<"local", "answered">>,
                                   <<"answered", "idle">>}
    /\ pc'[c] = "calling" /\ pc[c] # "calling" =>
            service_name'[c] \in RoutingKeys /\ sent'[c] = 1 /\ response'[c] = NoResponse
    /\ pc[c] = "calling" /\ pc'[c] = "answered" => reply'[c].kind = "failure"
    /\ response'[c] # response[c] =>
            \/ pc[c] # "answered" /\ pc'[c] = "answered"
            \/ pc'[c] = "idle" /\ response'[c] = NoResponse

\* The outcome of an answered in-scope request: how many of relayed
\* response, 503 raised, error propagated it is.
Outcomes(c) ==
    {o \in {"relayed", "unavailable", "propagated"} :
        \/ o = "relayed" /\ Relayed(c) /\ response[c] # NoResponse
        \/ o = "unavailable" /\ reply[c].kind = "failure" /\ raised[c].status_code = 503
        \/ o = "propagated" /\ reply[c].kind = "response" /\ raised[c] # NoExc}

\* C18: every in-scope request takes its steps in order, is answered once,
\* and, its call returning a reply or a transport failure, ends with exactly
\* one outcome.
C18_OneOutcomeInOrder ==
    /\ [][\A c \in ConnectionIds : InOrder(c)]_vars
    /\ \A c \in ConnectionIds :
        (pc[c] = "calling") ~> (pc[c] = "answered" /\ Cardinality(Outcomes(c)) = 1)

C18_Witness ==
    \E c, d \in Clients :
        /\ pc[c] = "answered" /\ Outcomes(c) = {"relayed"}
        /\ pc[d] = "answered" /\ Outcomes(d) = {"propagated"}
        /\ raised[d].type = "JSONDecodeError"


\* C19: of two requests that wait for their backends, either can complete
\* next, whichever arrived first; and when the later one has completed
\* first, with the relay of its own reply, the earlier one can still
\* complete.
C19_CompletionInReplyOrder ==
    \A i, j \in 1..Len(arrived) :
        LET A == arrived[i]
            B == arrived[j]
        IN  (i < j /\ pc[A] = "waiting") =>
                /\ pc[B] = "waiting" =>
                        \A rep \in ConcurrentReplies :
                            \A outA \in {Relay(service_name[A], rep)},
                               outB \in {Relay(service_name[B], rep)} :
                                /\ ENABLED (Answer(A, rep, outA) /\ pc'[B] = "waiting")
                                /\ ENABLED (Answer(B, rep, outB) /\ pc'[A] = "waiting")
                /\ (pc[B] = "answered" /\ reply[B].kind = "response") =>
                        /\ response[B] = Relay(service_name[B], reply[B]).response
                        /\ \A rep \in ConcurrentReplies : CanAnswer(A, rep)

\* Request B, the later one, to another backend than A, has its response
\* while A still waits.
C19_Witness ==
    \E A, B \in Clients :
        /\ arrived = <<A, B>>
        /\ service_name[A] = <<"equipment">> /\ service_name[B] = <<"providers">>
        /\ pc[A] = "waiting" /\ Relayed(B) /\ response[B].status = 404

\* C20: the mapping of service names to backend addresses is the one built
\* at start, in every state.
C20_ServiceUrlsNeverChange == service_urls = SERVICE_URLS

\* A request to the providers backend has failed and the mapping still has
\* the backend's address.
C20_Witness ==
    \E c \in Clients :
        /\ pc[c] = "answered" /\ reply[c].kind = "failure"
        /\ service_name[c] = <<"providers">>
        /\ service_urls[<<"providers">>] = SERVICE_URLS[<<"providers">>]
        /\ DOMAIN service_urls = RoutingKeys


\* C21: the gateway keeps nothing from one request to the next: what it
\* sends for a request is built from that request alone, and what it answers
\* from the reply to that call alone, as on a gateway that has handled
\* nothing before.
C21_NothingKeptAcrossRequests ==
    \A c \in Clients :
        /\ pc[c] = "calling" => outbound[c] = BuildCall(service_name[c], request[c])
        /\ (pc[c] = "answered" /\ reply[c].kind = "response") =>
                /\ response[c] = Relay(service_name[c], reply[c]).response
                /\ raised[c] = Relay(service_name[c], reply[c]).raised


\* The tokens of a text.
TokensOf(text) == {text[i] : i \in 1..Len(text)}

\* C22: a request whose backend call failed (in transport, or with a body
\* that is no JSON) is answered with an error response that has nothing of
\* the backend's reply in it; a request without failure is answered with the
\* whole of the backend's body.
C22_ErrorOrCompleteRelay ==
    \A c \in Clients :
        /\ (pc[c] = "answered" /\ raised[c] # NoExc) =>
                /\ response[c].status = 500
                /\ response[c].body = <<"Internal Server Error">>
                /\ TokensOf(response[c].body) \cap TokensOf(reply[c].data) = {}
                /\ HeaderNames(response[c].headers) = {"content-length", "content-type"}
                /\ ValuesOf(response[c].headers, "content-type") =
                        <<<<"text/plain; charset=utf-8">>>>
        /\ Relayed(c) =>
                /\ response[c].status = reply[c].status
                /\ response[c].body =
                        IF IsJsonBranch(ContentTypeOf(reply[c]))
                        THEN JsonDumps(JsonLoads(ReplyContent(reply[c]).content).val).body
                        ELSE ReplyContent(reply[c]).content

C22_Witness ==
    \E c \in Clients :
        /\ pc[c] = "answered" /\ reply[c].kind = "response"
        /\ DeclaresJson(reply[c]) /\ reply[c].data = <<"1", " ", "1">>
        /\ raised[c].type = "JSONDecodeError"
        /\ response[c].body = <<"Internal Server Error">>


C24_ContentLengthIsBodyLength ==
    \A c \in Clients :
        Relayed(c) =>
            \A i \in 1..Len(response[c].headers) :
                LowerTok(response[c].headers[i][1]) = "content-length" =>
                    response[c].headers[i][2] = LengthText(response[c].body)


\* C25: a request for any route of a backend is forwarded by the gateway,
\* to the port the backend of the route listens on.
C25_BackendRoutesForwarded ==
    \A c \in Clients : \A r \in BackendRoutes :
        (request[c] = RouteRequest(r) \/ handed[c] = RouteRequest(r)) =>
            /\ pc[c] = "calling"
            /\ PortOf(HostOf(outbound[c].url)) = r.port

\* ------------------------------------------------------------ the services
\* The write operations of the equipment, provider and maintenance services
\* and get_equipment, statement by statement, over one PostgreSQL database
\* (psycopg2: a connection opens a transaction with its first statement and
\* holds it until commit() or rollback(); isolation is READ COMMITTED).

\* A row: its id, the id it refers to (0 when none), and its content as a
\* sequence: empty for NULL.
Row(id, ref, val) == [id |-> id, ref |-> ref, val |-> val]

\* The contents the payloads of equipment and providers take.
Payloads == {<<1>>, <<2>>}

\* The subtotal the database returns with a new mantenimiento_repuesto row
\* (SparePart.subtotal: float).
Subtotals == {1, 2}

\* The ids callers name in paths and payloads: that of the first row of a
\* table and another.
Ids == {1, 2}

WriteOperations ==
    {"create_equipment", "update_equipment", "delete_equipment", "create_provider",
     "update_provider", "create_contract", "create_maintenance", "add_spare_part"}

\* The table of the operation's first statement.
TableOf(op) ==
    CASE op \in {"create_equipment", "update_equipment", "delete_equipment",
                 "get_equipment"} -> "equipo"
      [] op \in {"create_provider", "update_provider"} -> "proveedor"
      [] op = "create_contract" -> "contrato"
      [] op = "create_maintenance" -> "mantenimiento"
      [] op = "add_spare_part" -> "mantenimiento_repuesto"

\* The %s placeholders of the operation's first statement, and the
\* parameters the handler passes with it.
Placeholders(op) ==
    CASE op = "create_equipment" -> 8
      [] op = "update_equipment" -> 9
      [] op = "delete_equipment" -> 1
      [] op = "get_equipment" -> 1
      [] op = "create_provider" -> 7
      [] op = "update_provider" -> 8
      [] op = "create_contract" -> 8
      [] op = "create_maintenance" -> 11
      [] op = "add_spare_part" -> 4

Parameters(op) ==
    CASE op = "create_equipment" -> 8
      [] op = "update_equipment" -> 9
      [] op = "delete_equipment" -> 1
      [] op = "get_equipment" -> 1
      [] op = "create_provider" -> 7
      [] op = "update_provider" -> 8
      [] op = "create_contract" -> 8
      [] op = "create_maintenance" -> 10
      [] op = "add_spare_part" -> 4

Inserts(op) ==
    op \in {"create_equipment", "create_provider", "create_contract", "create_maintenance",
            "add_spare_part"}

\* The payload's id of what the new row refers to: id_proveedor,
\* id_equipo, or the path's maintenance_id.
Refers(op) == op \in {"create_contract", "create_maintenance", "add_spare_part"}

Matching(t, id) == {r \in db[t] : r.id = id}

Write(kind, t, id, ref, val) ==
    [kind |-> kind, table |-> t, id |-> id, ref |-> ref, val |-> val]

\* COALESCE(costo_repuestos, 0)
Coalesce(val) == IF val = <<>> THEN 0 ELSE val[1]

\* The rows of a table after a write of a transaction.
Written(rows, w) ==
    CASE w.kind = "insert" -> rows \cup {Row(w.id, w.ref, w.val)}
      [] w.kind = "update" ->
            {IF r.id = w.id THEN [r EXCEPT !.val = w.val] ELSE r : r \in rows}
      [] w.kind = "delete" -> {r \in rows : r.id # w.id}
      [] w.kind = "increase" ->
            {IF r.id = w.id THEN [r EXCEPT !.val = <<Coalesce(r.val) + w.val[1]>>] ELSE r :
                r \in rows}

\* The content of the database after the writes of a transaction.
RECURSIVE Committed(_, _)
Committed(content, tx) ==
    IF tx = <<>> THEN content
    ELSE Committed([content EXCEPT ![Head(tx).table] = Written(@, Head(tx))], Tail(tx))

\* The row is locked by a transaction of another caller that has updated or
\* deleted it and has neither committed nor rolled back.
Locked(k, t, id) ==
    \E j \in DOMAIN handling \ {k} : \E i \in 1..Len(handling[j].tx) :
        /\ handling[j].tx[i].kind # "insert"
        /\ handling[j].tx[i].table = t
        /\ handling[j].tx[i].id = id

\* What the first statement of the operation writes in its transaction and
\* the row cur.fetchone() gives back (none: the empty sequence).
Statement(cl) ==
    LET t == TableOf(cl.op)
        new == seq[t] + 1
        hit == Matching(t, cl.id)
        none == {[tx |-> <<>>, row |-> <<>>]}
    IN  CASE cl.op \in {"create_equipment", "create_provider", "create_contract",
                        "create_maintenance"} ->
                LET ref == IF Refers(cl.op) THEN cl.id ELSE 0
                IN  {[tx |-> <<Write("insert", t, new, ref, cl.body)>>,
                      row |-> <<Row(new, ref, cl.body)>>]}
          [] cl.op = "add_spare_part" ->
                {[tx |-> <<Write("insert", t, new, cl.id, <<s>>)>>,
                  row |-> <<Row(new, cl.id, <<s>>)>>] : s \in Subtotals}
          [] cl.op \in {"update_equipment", "update_provider"} ->
                IF hit = {} THEN none
                ELSE {[tx |-> <<Write("update", t, cl.id, 0, cl.body)>>,
                       row |-> <<Row(cl.id, 0, cl.body)>>]}
          [] cl.op = "delete_equipment" ->
                IF hit = {} THEN none
                ELSE {[tx |-> <<Write("delete", t, cl.id, 0, <<>>)>>, row |-> <<r>>] :
                         r \in hit}
          [] cl.op = "get_equipment" ->
                IF hit = {} THEN none ELSE {[tx |-> <<>>, row |-> <<r>>] : r \in hit}

\* The exceptions raised in the handlers.
DatabaseError == [type |-> "Error", status_code |-> 500, detail |-> "database error"]

IndexError == [type |-> "IndexError", status_code |-> 500, detail |-> "tuple index out of range"]

HTTPException(status_code, detail) ==
    [type |-> "HTTPException", status_code |-> status_code, detail |-> detail]

\* The detail of the 404 the operation raises when no row has the id.
Missing(op) ==
    IF op = "update_provider" THEN "Proveedor no encontrado" ELSE "Equipment not found"

\* str(e): the message of the exception; of an HTTPException "<status>:
\* <detail>", or nothing where Starlette does not define __str__ for it.
Str(e) ==
    IF e.type = "HTTPException"
    THEN {"", ToString(e.status_code) \o ": " \o e.detail}
    ELSE {e.detail}

\* The answer FastAPI gives for an exception that leaves the handler.
Answered(e) ==
    IF e.type = "HTTPException"
    THEN [status |-> e.status_code, detail |-> e.detail]
    ELSE [status |-> 500, detail |-> "Internal Server Error"]

\* What the except clauses of the operation make of an exception raised in
\* its try block: get_equipment has none; update_provider hands an
\* HTTPException on as it is; every other exception, and in the other
\* handlers the HTTPException too, becomes HTTPException(400, str(e)).
Handled(op, e) ==
    CASE op = "get_equipment" -> {Answered(e)}
      [] op = "update_provider" /\ e.type = "HTTPException" -> {Answered(e)}
      [] OTHER -> {Answered(HTTPException(400, d)) : d \in Str(e)}

\* The exception leaves the try block: the except clause rolls the
\* transaction back and the handler answers.
Fails(k, e) ==
    \E a \in Handled(handling[k].op, e) :
        handling' = [handling EXCEPT ![k] =
                        [@ EXCEPT !.pc = "answered", !.tx = <<>>, !.error = e.type,
                                  !.status = a.status, !.detail = a.detail]]

\* A call arrives, get_db_connection() connects and the handler enters its
\* try block.
Receive(k, op, id, body) ==
    /\ handling[k].pc = "idle"
    /\ handling' = [handling EXCEPT ![k] =
                       [NoOperation EXCEPT !.op = op, !.id = id, !.body = body,
                                           !.pc = "begun"]]
    /\ UNCHANGED <<db, origin, seq>>
    /\ UNCHANGED gateway

\* A call arrives and psycopg2.connect raises, outside the try block.
Unconnected(k, op, id, body) ==
    /\ handling[k].pc = "idle"
    /\ handling' = [handling EXCEPT ![k] =
                       [NoOperation EXCEPT !.op = op, !.id = id, !.body = body,
                                           !.pc = "answered",
                                           !.error = DatabaseError.type,
                                           !.status = Answered(DatabaseError).status,
                                           !.detail = Answered(DatabaseError).detail]]
    /\ UNCHANGED <<db, origin, seq>>
    /\ UNCHANGED gateway

\* The first cur.execute of the handler and its fetchone(). psycopg2 raises
\* before it sends anything when the placeholders outnumber the parameters;
\* an UPDATE or DELETE waits while the row it matches is locked; the
\* database may refuse any statement.
Execute(k) ==
    LET cl == handling[k]
        t == TableOf(cl.op)
    IN  /\ cl.pc = "begun"
        /\ IF Placeholders(cl.op) # Parameters(cl.op)
           THEN Fails(k, IndexError) /\ UNCHANGED seq
           ELSE /\ ~Locked(k, t, cl.id)
                /\ Inserts(cl.op) => seq[t] < MaxRows
                /\ \/ /\ \E s \in Statement(cl) :
                            handling' = [handling EXCEPT ![k] =
                                            [@ EXCEPT !.pc = "executed", !.tx = s.tx,
                                                      !.row = s.row]]
                      /\ seq' = IF Inserts(cl.op) THEN [seq EXCEPT ![t] = @ + 1] ELSE seq
                   \/ Fails(k, DatabaseError) /\ UNCHANGED seq
        /\ UNCHANGED <<db, origin>>
        /\ UNCHANGED gateway

\* No row has the id: raise HTTPException(status_code=404, ...), inside the
\* try block.
NotFound(k) ==
    /\ handling[k].pc = "executed"
    /\ handling[k].op \in {"update_equipment", "delete_equipment", "update_provider",
                           "get_equipment"}
    /\ handling[k].row = <<>>
    /\ Fails(k, HTTPException(404, Missing(handling[k].op)))
    /\ UNCHANGED <<db, origin, seq>>
    /\ UNCHANGED gateway

\* A slip of Increase: the handler adds the subtotal to the cost it has read,
\* and writes the result without waiting for the row.
IncreaseFromRead(k) ==
    LET cl == handling[k]
        hit == Matching("mantenimiento", cl.id)
    IN  /\ cl.pc = "executed"
        /\ cl.op = "add_spare_part"
        /\ \/ handling' = [handling EXCEPT ![k] =
                              [@ EXCEPT !.pc = "updated",
                                        !.tx = IF hit = {} THEN @
                                               ELSE Append(@, Write("update", "mantenimiento",
                                                       cl.id, 0,
                                                       <<Coalesce((CHOOSE m \in hit : TRUE).val)
                                                           + cl.row[1].val[1]>>))]]
           \/ Fails(k, DatabaseError)
        /\ UNCHANGED <<db, origin, seq>>
        /\ UNCHANGED gateway

\* add_spare_part, the second cur.execute: UPDATE mantenimiento SET
\* costo_repuestos = COALESCE(costo_repuestos, 0) + subtotal. The statement
\* waits for the row's lock and computes from the row as it is then.
Increase(k) ==
    LET cl == handling[k]
    IN  /\ cl.pc = "executed"
        /\ cl.op = "add_spare_part"
        /\ ~Locked(k, "mantenimiento", cl.id)
        /\ \/ handling' = [handling EXCEPT ![k] =
                              [@ EXCEPT !.pc = "updated",
                                        !.tx = IF Matching("mantenimiento", cl.id) = {} THEN @
                                               ELSE Append(@, Write("increase", "mantenimiento",
                                                                    cl.id, 0, cl.row[1].val))]]
           \/ Fails(k, DatabaseError)
        /\ UNCHANGED <<db, origin, seq>>
        /\ UNCHANGED gateway

\* conn.commit()
Commit(k) ==
    LET cl == handling[k]
    IN  /\ \/ cl.pc = "updated"
           \/ /\ cl.pc = "executed"
              /\ cl.op \notin {"add_spare_part", "get_equipment"}
              /\ cl.row # <<>>
        /\ \/ /\ db' = Committed(db, cl.tx)
              /\ handling' = [handling EXCEPT ![k] =
                                  [@ EXCEPT !.pc = "committed", !.tx = <<>>, !.done = cl.tx]]
           \/ Fails(k, DatabaseError) /\ UNCHANGED db
        /\ UNCHANGED <<origin, seq>>
        /\ UNCHANGED gateway

\* create_equipment and update_equipment, after the commit and inside the try
\* block: return _get_equipment_with_location(cur, id). A row that is gone
\* gives None, which the response model refuses.
ReadBack(k) ==
    LET cl == handling[k]
        hit == Matching("equipo", cl.row[1].id)
    IN  /\ cl.pc = "committed"
        /\ cl.op \in {"create_equipment", "update_equipment"}
        /\ \/ handling' = [handling EXCEPT ![k] =
                              IF hit = {}
                              THEN [@ EXCEPT !.pc = "answered", !.row = <<>>,
                                             !.error = "ResponseValidationError",
                                             !.status = 500,
                                             !.detail = "Internal Server Error"]
                              ELSE [@ EXCEPT !.pc = "answered", !.status = 200,
                                             !.row = <<CHOOSE r \in hit : TRUE>>]]
           \/ Fails(k, DatabaseError)
        /\ UNCHANGED <<db, origin, seq>>
        /\ UNCHANGED gateway

\* The handler returns the row, or the message of delete_equipment.
Returns(k) ==
    LET cl == handling[k]
    IN  /\ \/ cl.pc = "committed" /\ cl.op \notin {"create_equipment", "update_equipment"}
           \/ cl.pc = "executed" /\ cl.op = "get_equipment" /\ cl.row # <<>>
        /\ handling' = [handling EXCEPT ![k] =
                           [@ EXCEPT !.pc = "answered", !.status = 200,
                                     !.detail = IF cl.op = "delete_equipment"
                                                THEN "Equipment deleted successfully" ELSE ""]]
        /\ UNCHANGED <<db, origin, seq>>
        /\ UNCHANGED gateway

\* The caller has its answer.
Finish(k) ==
    /\ handling[k].pc = "answered"
    /\ handling' = [handling EXCEPT ![k] = NoOperation]
    /\ UNCHANGED <<db, origin, seq>>
    /\ UNCHANGED gateway

\* list_all_maintenance and list_equipment_maintenance: the rows of
\* mantenimiento, and those of one equipment.
list_all_maintenance == db["mantenimiento"]

list_equipment_maintenance(equipment_id) ==
    {m \in db["mantenimiento"] : m.ref = equipment_id}

\* The body of a call of the operation.
Bodies(op) ==
    IF op \in {"create_equipment", "update_equipment", "create_provider", "update_provider"}
    THEN Payloads ELSE {<<>>}

\* What the database holds before the first call: no or one equipment, and
\* with it no or one maintenance record whose costo_repuestos is NULL or set.
Contents ==
    {[EmptyDb EXCEPT !["equipo"] = e, !["mantenimiento"] = m] :
        e \in {{}}, m \in {{}}}
    \cup
    {[EmptyDb EXCEPT !["equipo"] = {Row(1, 0, <<1>>)}, !["mantenimiento"] = m] :
        m \in {{}, {Row(1, 1, <<>>)}, {Row(1, 1, <<2>>)}}}

\* The operations of each service.
EquipmentOperations ==
    {"create_equipment", "get_equipment", "update_equipment", "delete_equipment"}

ProviderOperations == {"create_provider", "create_contract", "update_provider"}

MaintenanceOperations == {"create_maintenance", "add_spare_part"}

\* The equipment service with one caller.
EquipmentNext ==
    \E k \in DOMAIN handling :
        \/ \E op \in EquipmentOperations, id \in Ids : \E body \in Bodies(op) :
               Receive(k, op, id, body)
        \/ \E op \in EquipmentOperations, id \in Ids : \E body \in Bodies(op) :
               Unconnected(k, op, id, body)
        \/ Execute(k)
        \/ NotFound(k)
        \/ Commit(k)
        \/ ReadBack(k)
        \/ Returns(k)
        \/ Finish(k)

OneCaller == GatewayFor({}) /\ \E content \in Contents : StoredFor({"k1"}, content)

EquipmentSpec == OneCaller /\ [][EquipmentNext]_vars

\* The provider service with one caller.
ProviderNext ==
    \E k \in DOMAIN handling :
        \/ \E op \in ProviderOperations, id \in Ids : \E body \in Bodies(op) :
               Receive(k, op, id, body)
        \/ \E op \in ProviderOperations, id \in Ids : \E body \in Bodies(op) :
               Unconnected(k, op, id, body)
        \/ Execute(k)
        \/ NotFound(k)
        \/ Commit(k)
        \/ Returns(k)
        \/ Finish(k)

ProviderSpec == OneCaller /\ [][ProviderNext]_vars

\* The maintenance service with one caller.
MaintenanceNext ==
    \E k \in DOMAIN handling :
        \/ \E op \in MaintenanceOperations, id \in Ids : Receive(k, op, id, <<>>)
        \/ \E op \in MaintenanceOperations, id \in Ids : Unconnected(k, op, id, <<>>)
        \/ Execute(k)
        \/ Increase(k)
        \/ Commit(k)
        \/ Returns(k)
        \/ Finish(k)

MaintenanceSpec == OneCaller /\ [][MaintenanceNext]_vars

\* Concurrent callers of add_spare_part.
SparePartNext ==
    \E k \in DOMAIN handling :
        \/ \E id \in Ids : Receive(k, "add_spare_part", id, <<>>)
        \/ \E id \in Ids : Unconnected(k, "add_spare_part", id, <<>>)
        \/ Execute(k)
        \/ Increase(k)
        \/ Commit(k)
        \/ Returns(k)
        \/ Finish(k)

\* The database holds a maintenance record.
ConcurrentCallers ==
    /\ GatewayFor({})
    /\ \E content \in {c \in Contents : c["mantenimiento"] # {}} :
           StoredFor(ConnectionIds, content)

SparePartSpec == ConcurrentCallers /\ [][SparePartNext]_vars

\* C26: whenever a write operation of the services answers with an error
\* status, the call has committed nothing: the database holds what it held
\* before the call.
C26_ErrorLeavesDatabase ==
    \A k \in DOMAIN handling :
        (/\ handling[k].pc = "answered"
         /\ handling[k].op \in WriteOperations
         /\ handling[k].status >= 400)
        => handling[k].done = <<>>

\* C27: update_equipment and delete_equipment with an id that no equipo row
\* has answer 404 "Equipment not found", as get_equipment does, and commit
\* nothing (the database accepting every statement).
C27_MissingEquipmentIs404 ==
    \A k \in DOMAIN handling :
        (/\ handling[k].pc = "answered"
         /\ handling[k].op \in {"update_equipment", "delete_equipment", "get_equipment"}
         /\ Matching("equipo", handling[k].id) = {}
         /\ handling[k].error # DatabaseError.type)
        => /\ handling[k].status = 404
           /\ handling[k].detail = "Equipment not found"
           /\ handling[k].done = <<>>

\* The sum of the subtotals of spare-part rows.
RECURSIVE SumOfSubtotals(_)
SumOfSubtotals(rows) ==
    IF rows = {} THEN 0
    ELSE LET r == CHOOSE x \in rows : TRUE
         IN  r.val[1] + SumOfSubtotals(rows \ {r})

\* C28: whatever add_spare_part calls have run, one after the other or
\* interleaved, the costo_repuestos of a maintenance record is what it was
\* before them (NULL as 0) plus the subtotals of the spare-part rows the
\* database holds for it; and a call has answered with success exactly when
\* its row is in the database.
C28_CostIsSumOfSubtotals ==
    /\ \A m \in origin["mantenimiento"] : \A now \in Matching("mantenimiento", m.id) :
           Coalesce(now.val) =
               Coalesce(m.val)
                   + SumOfSubtotals({r \in db["mantenimiento_repuesto"] : r.ref = m.id})
    /\ \A k \in DOMAIN handling :
           (handling[k].pc = "answered" /\ handling[k].op = "add_spare_part")
           => ((handling[k].status = 200)
               <=> (/\ handling[k].row # <<>>
                    /\ handling[k].row[1] \in db["mantenimiento_repuesto"]))

\* Two calls on the same maintenance record have interleaved: one has
\* inserted its row first and not yet updated the cost, the other has
\* committed and answered.
C28_Witness ==
    \E k \in DOMAIN handling, j \in DOMAIN handling :
        /\ handling[k].op = "add_spare_part"
        /\ handling[j].op = "add_spare_part"
        /\ handling[k].pc = "answered"
        /\ handling[k].status = 200
        /\ handling[j].pc = "executed"
        /\ handling[j].row[1].id < handling[k].row[1].id
        /\ handling[j].id = handling[k].id
        /\ Matching("mantenimiento", handling[k].id) # {}

\* C29: create_maintenance with a valid payload that names an existing
\* equipment (the database accepting every statement) answers with success,
\* has inserted exactly one mantenimiento row, returns it, and
\* list_all_maintenance and list_equipment_maintenance of that equipment
\* list it.
C29_CreateMaintenanceInserts ==
    \A k \in DOMAIN handling :
        (/\ handling[k].pc = "answered"
         /\ handling[k].op = "create_maintenance"
         /\ Matching("equipo", handling[k].id) # {}
         /\ handling[k].error # DatabaseError.type)
        => /\ handling[k].status = 200
           /\ Len(handling[k].done) = 1
           /\ handling[k].done[1].kind = "insert"
           /\ handling[k].done[1].table = "mantenimiento"
           /\ handling[k].row # <<>>
           /\ handling[k].row[1] \in list_all_maintenance
           /\ handling[k].row[1] \in list_equipment_maintenance(handling[k].id)

====
